---------------------------- MODULE Spec2Model ----------------------------
(***************************************************************************)
(* Model of tools/extractTIABs.py: main() parses the options, then calls   *)
(* process() on every input file; process() streams the MedlineCitation    *)
(* elements of a file and, for each one, validates it, applies the PMID    *)
(* range filter, assembles the abstract text and writes <PMID>.txt.        *)
(*                                                                         *)
(* Text is a sequence of code points; a file holds a sequence of bytes.    *)
(* An optional value (an element's .text, an attribute, an option) is a    *)
(* record [some, val]: Python's None is [some |-> FALSE].                  *)
(***************************************************************************)
EXTENDS Integers, Sequences, FiniteSets, TLC

\* Bounds of the model.
MaxSegs == 3
MaxCitations == 2
MaxFiles == 2

-----------------------------------------------------------------------------
\* Optional values and text.

None == [some |-> FALSE, val |-> <<>>]
Some(v) == [some |-> TRUE, val |-> v]

Whitespace == {9, 10, 13, 32}
Digits == 48..57

\* s.strip() == ""
IsBlank(s) == \A i \in 1..Len(s) : s[i] \in Whitespace

\* s.strip()
RECURSIVE LStrip(_)
LStrip(s) == IF Len(s) > 0 /\ s[1] \in Whitespace THEN LStrip(Tail(s)) ELSE s
RECURSIVE RStrip(_)
RStrip(s) ==
    IF Len(s) > 0 /\ s[Len(s)] \in Whitespace
    THEN RStrip(SubSeq(s, 1, Len(s) - 1)) ELSE s
Strip(s) == RStrip(LStrip(s))

RECURSIVE DigitsValue(_)
DigitsValue(s) ==
    IF s = <<>> THEN 0
    ELSE 10 * DigitsValue(SubSeq(s, 1, Len(s) - 1)) + (s[Len(s)] - 48)

\* int(t) of a text t: surrounding whitespace is dropped, one sign is allowed,
\* then only decimal digits. [ok |-> FALSE] is the TypeError (None) or
\* ValueError (anything else) the builtin raises.
IntOf(t) ==
    IF ~t.some THEN [ok |-> FALSE, val |-> 0]
    ELSE LET s == Strip(t.val)
             signed == Len(s) > 0 /\ s[1] \in {43, 45}
             d == IF signed THEN Tail(s) ELSE s
         IN IF Len(d) > 0 /\ \A i \in 1..Len(d) : d[i] \in Digits
            THEN [ok |-> TRUE,
                  val |-> IF signed /\ s[1] = 45 THEN 0 - DigitsValue(d)
                          ELSE DigitsValue(d)]
            ELSE [ok |-> FALSE, val |-> 0]

\* re.match(r'^\d+$', s): "$" also matches just before a final newline.
MatchesDigits(s) ==
    LET core == IF Len(s) > 0 /\ s[Len(s)] = 10
                THEN SubSeq(s, 1, Len(s) - 1) ELSE s
    IN Len(core) > 0 /\ \A i \in 1..Len(core) : core[i] \in Digits

\* One code point as UTF-8 bytes.
EncodeChar(c) ==
    IF c < 128 THEN <<c>>
    ELSE IF c < 2048 THEN <<192 + (c \div 64), 128 + (c % 64)>>
    ELSE <<224 + (c \div 4096), 128 + ((c \div 64) % 64), 128 + (c % 64)>>

\* s.encode("UTF-8")
RECURSIVE Encode(_)
Encode(s) == IF s = <<>> THEN <<>> ELSE EncodeChar(Head(s)) \o Encode(Tail(s))

\* sep.join(parts)
RECURSIVE Join(_, _)
Join(sep, parts) ==
    IF parts = <<>> THEN <<>>
    ELSE IF Len(parts) = 1 THEN parts[1]
    ELSE parts[1] \o sep \o Join(sep, Tail(parts))

-----------------------------------------------------------------------------
\* The loop body of process(): one MedlineCitation element.
\*
\* A citation is [PMIDs, Articles, OtherAbstracts]: the texts of its PMID
\* children, its Article children and its OtherAbstract children. An article is
\* [ArticleTitles, Abstracts]; an Abstract or OtherAbstract is the sequence of
\* its AbstractText children, each [Label, text].

UNLABELLED == <<85, 78, 76, 65, 66, 69, 76, 76, 69, 68>>

\* at.text is None or at.text.strip() == ""
EmptyText(at) == ~at.text.some \/ IsBlank(at.text.val)

\* A test against the sentinel in the wrong case, "Unlabelled".
SkipsSegmentWrongCase(at) ==
    /\ EmptyText(at) /\ at.Label.some
    /\ at.Label.val = <<85, 110, 108, 97, 98, 101, 108, 108, 101, 100>>

\* The AbstractText elements the loop drops without a section text.
SkipsSegment(at) ==
    EmptyText(at) /\ at.Label.some /\ at.Label.val = UNLABELLED

\* A separator that ignores --single-line-abstract.
SeparatorNewlineOnly(o) == <<10>>

\* " " with --single-line-abstract, "\n" without.
Separator(o) == IF o.single_line_abstract THEN <<32>> ELSE <<10>>

\* t, as appended to sectionTexts for an AbstractText that is not dropped.
SectionText(at, o) ==
    LET t == IF at.Label.some THEN at.Label.val \o <<58>> ELSE <<>>
    IN IF EmptyText(at) THEN t ELSE t \o Separator(o) \o at.text.val

\* What the loop prints to stderr for one AbstractText.
SegmentNotes(at, o) ==
    IF SkipsSegment(at)
    THEN IF o.verbose THEN <<"NOTE: skipping empty <AbstractText>s">> ELSE <<>>
    ELSE (IF at.Label.some THEN <<>> ELSE <<"Warning: missing 'Label'">>)
         \o (IF EmptyText(at) THEN <<"NOTE: empty text">> ELSE <<>>)

\* sectionTexts after the loop over abstractTexts.
RECURSIVE SectionTexts(_, _)
SectionTexts(abstractTexts, o) ==
    IF abstractTexts = <<>> THEN <<>>
    ELSE (IF SkipsSegment(Head(abstractTexts)) THEN <<>>
          ELSE <<SectionText(Head(abstractTexts), o)>>)
         \o SectionTexts(Tail(abstractTexts), o)

RECURSIVE SectionNotes(_, _)
SectionNotes(abstractTexts, o) ==
    IF abstractTexts = <<>> THEN <<>>
    ELSE SegmentNotes(Head(abstractTexts), o)
         \o SectionNotes(Tail(abstractTexts), o)

\* textAbstract for an abstract with at least one AbstractText.
TextAbstract(abstractTexts, o) ==
    IF Len(abstractTexts) = 1 THEN abstractTexts[1].text
    ELSE Some(Join(Separator(o), SectionTexts(abstractTexts, o)))

\* stderr while textAbstract is built.
AbstractNotes(abstractTexts, o) ==
    IF Len(abstractTexts) = 1 THEN <<>>
    ELSE (IF o.verbose THEN <<"NOTE: multiple <AbstractText>s">> ELSE <<>>)
         \o SectionNotes(abstractTexts, o)

\* A choice that takes the last OtherAbstract instead of the first.
ChosenAbstractLastOther(citation, article) ==
    IF article.Abstracts # <<>> THEN Some(article.Abstracts[1])
    ELSE IF citation.OtherAbstracts # <<>>
    THEN Some(citation.OtherAbstracts[Len(citation.OtherAbstracts)])
    ELSE None

\* abstract: the Article's Abstract, else the first OtherAbstract, else None.
ChosenAbstract(citation, article) ==
    IF article.Abstracts # <<>> THEN Some(article.Abstracts[1])
    ELSE IF citation.OtherAbstracts # <<>> THEN Some(citation.OtherAbstracts[1])
    ELSE None

OtherAbstractNotes(citation, article, o) ==
    IF article.Abstracts = <<>> /\ Len(citation.OtherAbstracts) > 1 /\ o.verbose
    THEN <<"NOTE: 'other' abstracts. Only printing first.">> ELSE <<>>

\* Whether the PMID range test sends the citation to the skip branch.
OutOfRange(pmid, o) ==
    \/ o.PMID_greater_than.some /\ pmid <= o.PMID_greater_than.val
    \/ o.PMID_lower_than.some /\ pmid >= o.PMID_lower_than.val

\* Whether the range test calls int(PMID.text) at all.
ReadsPMID(o) == o.PMID_greater_than.some \/ o.PMID_lower_than.some

\* Prints that write the abstract line without testing textAbstract.
FileDataAlwaysAbstract(textTitle, textAbstract) ==
    Encode(textTitle) \o <<10>> \o Encode(textAbstract.val) \o <<10>>

\* What the two prints to `out` write.
FileData(textTitle, textAbstract) ==
    Encode(textTitle) \o <<10>>
    \o (IF textAbstract.some /\ textAbstract.val # <<>>
        THEN Encode(textAbstract.val) \o <<10>> ELSE <<>>)

\* The result of the loop body for one citation: how it ended (kind), the
\* exception when it raised (error), what it printed to stderr (notes), its
\* locals, whether open(outputFile, "w") ran (opened) and the bytes written.
NoResult ==
    [kind |-> "none", error |-> "", notes |-> <<>>, abstract |-> None,
     textAbstract |-> Some(<<>>), textTitle |-> None, textPMID |-> None,
     opened |-> FALSE, data |-> <<>>]

Raised(r, e) == [r EXCEPT !.kind = "error", !.error = e]

\* Lines 194-215: the sanity check of the PMID text and the output file.
Emit(r, o) ==
    IF ~r.textPMID.some THEN Raised(r, "TypeError: re.match(None)")
    ELSE IF ~MatchesDigits(r.textPMID.val)
    THEN Raised(r, "AssertionError: unexpected characters in PMID")
    ELSE IF ~r.textTitle.some
    THEN Raised([r EXCEPT !.opened = TRUE], "AttributeError: None.encode")
    ELSE [r EXCEPT
            !.kind = "output",
            !.opened = TRUE,
            !.data = FileData(r.textTitle.val, r.textAbstract),
            !.notes = @ \o (IF (~r.textAbstract.some \/ r.textAbstract.val = <<>>)
                               /\ o.verbose
                            THEN <<"No abstract">> ELSE <<>>)]

\* A check that lets a second Article through.
OneArticleOrMore(citation) == Len(citation.Articles) >= 1

\* assert len(articles) == 1
OneArticle(citation) == Len(citation.Articles) = 1

\* Lines 114-192: Article, ArticleTitle, Abstract and the abstract text.
Extract(r, citation, o) ==
    IF ~OneArticle(citation) THEN Raised(r, "AssertionError: articles")
    ELSE LET article == citation.Articles[1] IN
    IF Len(article.ArticleTitles) # 1 THEN Raised(r, "TypeError: len() titles")
    ELSE IF Len(article.Abstracts) \notin {0, 1}
    THEN Raised(r, "TypeError: len() abstracts")
    ELSE LET abstract == ChosenAbstract(citation, article)
             r1 == [r EXCEPT !.textTitle = article.ArticleTitles[1],
                             !.abstract = abstract,
                             !.notes = @ \o OtherAbstractNotes(citation, article, o)]
         IN IF ~abstract.some THEN Emit(r1, o)
            ELSE IF Len(abstract.val) = 0
            THEN Raised(r1, "AssertionError: 0 abstract texts")
            ELSE Emit([r1 EXCEPT
                         !.textAbstract = TextAbstract(abstract.val, o),
                         !.notes = @ \o AbstractNotes(abstract.val, o)], o)

\* Lines 91-215: the whole loop body.
Body(citation, o) ==
    IF Len(citation.PMIDs) # 1
    THEN Raised(NoResult, "AssertionError: expected 1 PMID")
    ELSE LET PMID == citation.PMIDs[1]
             n == IntOf(PMID)
             r == [NoResult EXCEPT !.textPMID = PMID]
         IN IF ReadsPMID(o) /\ ~n.ok THEN Raised(r, "int(PMID.text)")
            ELSE IF ReadsPMID(o) /\ OutOfRange(n.val, o)
            THEN IF o.verbose
                 THEN Raised([r EXCEPT !.notes = <<"Note: skipping %s">>],
                             "TypeError: %d format")
                 ELSE [r EXCEPT !.kind = "skipped"]
            ELSE Extract(r, citation, o)

-----------------------------------------------------------------------------
\* File names.

RECURSIVE DigitRun(_, _)
DigitRun(s, i) ==
    IF i <= Len(s) /\ s[i] \in Digits THEN 1 + DigitRun(s, i + 1) ELSE 0

\* m.group(1) of re.match(r'(medline\d\dn\d+)\.xml(?:\.gz)?$', filename),
\* None when there is no match.
FilenameBase(filename) ==
    LET k == DigitRun(filename, 11)
        rest == SubSeq(filename, 11 + k, Len(filename))
        xml == <<46, 120, 109, 108>>
        gz == <<46, 103, 122>>
    IN IF /\ Len(filename) >= 11
          /\ SubSeq(filename, 1, 7) = <<109, 101, 100, 108, 105, 110, 101>>
          /\ filename[8] \in Digits /\ filename[9] \in Digits
          /\ filename[10] = 110
          /\ k >= 1
          /\ rest \in {xml, xml \o <<10>>, xml \o gz, xml \o gz \o <<10>>}
       THEN Some(SubSeq(filename, 1, 10 + k)) ELSE None

-----------------------------------------------------------------------------
\* The run.

VARIABLES
    argv,           \* the options as given on the command line (texts)
    options,        \* the options after main() converted the two bounds
    pc,             \* start, main, process, citation, done, fatal
    nfiles,         \* input files main() has handed to process()
    outputDir,      \* the package directory of the file being processed
    dirs,           \* package directories that exist under --output-dir
    disk,           \* output files: <<package, PMID text>> -> bytes
    citation,       \* the element iterparse delivered last
    last,           \* the result of the loop body for it
    output_count,
    skipped_count,
    processed,      \* citations the loop body was entered for
    cleared,        \* citation.clear() calls
    written,        \* records counted as output for the current file, in order
    summary         \* whether the "Done." line was printed

vars == <<argv, options, pc, nfiles, outputDir, dirs, disk, citation, last,
          output_count, skipped_count, processed, cleared, written, summary>>

NoInt == [some |-> FALSE, val |-> 0]
NoCitation == [PMIDs |-> <<>>, Articles |-> <<>>, OtherAbstracts |-> <<>>]

InitWith(args) ==
    /\ argv \in args
    /\ options = [PMID_greater_than |-> NoInt, PMID_lower_than |-> NoInt,
                  single_line_abstract |-> FALSE, verbose |-> FALSE]
    /\ pc = "start"
    /\ nfiles = 0
    /\ outputDir = <<>>
    /\ dirs = {}
    /\ disk = <<>>
    /\ citation = NoCitation
    /\ last = NoResult
    /\ output_count = 0
    /\ skipped_count = 0
    /\ processed = 0
    /\ cleared = 0
    /\ written = <<>>
    /\ summary = FALSE

\* int(options.PMID_greater_than), int(options.PMID_lower_than)
BoundOf(t) == IF t.some THEN [some |-> TRUE, val |-> IntOf(t).val] ELSE NoInt

\* main(), lines 223-228.
ParseArgs ==
    /\ pc = "start"
    /\ IF \/ argv.PMID_greater_than.some /\ ~IntOf(argv.PMID_greater_than).ok
          \/ argv.PMID_lower_than.some /\ ~IntOf(argv.PMID_lower_than).ok
       THEN pc' = "fatal" /\ UNCHANGED options
       ELSE /\ pc' = "main"
            /\ options' = [PMID_greater_than |-> BoundOf(argv.PMID_greater_than),
                           PMID_lower_than |-> BoundOf(argv.PMID_lower_than),
                           single_line_abstract |-> argv.single_line_abstract,
                           verbose |-> argv.verbose]
    /\ UNCHANGED <<argv, nfiles, outputDir, dirs, disk, citation, last,
                   output_count, skipped_count, processed, cleared, written,
                   summary>>

\* main() line 231 and process() lines 68-82: the next input file.
OpenFile(files, maxFiles) ==
    /\ pc = "main"
    /\ nfiles < maxFiles
    /\ \E fn \in files :
         LET m == FilenameBase(fn) IN
         /\ nfiles' = nfiles + 1
         /\ IF ~m.some \/ m.val \in dirs
            THEN pc' = "fatal" /\ UNCHANGED <<outputDir, dirs, written>>
            ELSE /\ pc' = "process"
                 /\ outputDir' = m.val
                 /\ dirs' = dirs \cup {m.val}
                 /\ written' = <<>>
    /\ UNCHANGED <<argv, options, disk, citation, last, output_count,
                   skipped_count, processed, cleared, summary>>

\* iterparse delivers the end of the next MedlineCitation, line 84.
Yield(citations, maxCitations) ==
    /\ pc = "process"
    /\ processed < maxCitations
    /\ \E c \in citations : citation' = c
    /\ pc' = "citation"
    /\ UNCHANGED <<argv, options, nfiles, outputDir, dirs, disk, last,
                   output_count, skipped_count, processed, cleared, written,
                   summary>>

\* An open() that leaves an existing file as it is.
DiskAfterKeepsExisting(r) ==
    IF r.opened THEN disk @@ (<<outputDir, r.textPMID.val>> :> r.data) ELSE disk

\* The file the loop body leaves behind: open(..., "w") truncates, then the
\* prints fill it.
DiskAfter(r) ==
    IF r.opened THEN (<<outputDir, r.textPMID.val>> :> r.data) @@ disk ELSE disk

\* A loop that clears the element only after writing its file.
ClearsOnlyWritten(r) == IF r.kind = "output" THEN 1 ELSE 0

\* citation.clear() runs on the skip branch and after the file is written.
Clears(r) == IF r.kind \in {"output", "skipped"} THEN 1 ELSE 0

\* The loop body, lines 89-215, for the citation delivered.
ProcessCitation ==
    /\ pc = "citation"
    /\ LET r == Body(citation, options) IN
       /\ last' = r
       /\ disk' = DiskAfter(r)
       /\ pc' = IF r.kind = "error" THEN "fatal" ELSE "process"
       /\ output_count' = IF r.kind = "output" THEN output_count + 1
                          ELSE output_count
       /\ skipped_count' = IF r.kind = "skipped" THEN skipped_count + 1
                           ELSE skipped_count
       /\ cleared' = cleared + Clears(r)
       /\ written' = IF r.kind = "output"
                     THEN Append(written, [PMID |-> r.textPMID.val,
                                           title |-> r.textTitle.val,
                                           abstract |-> r.textAbstract])
                     ELSE written
    /\ processed' = processed + 1
    /\ UNCHANGED <<argv, options, nfiles, outputDir, dirs, citation, summary>>

\* iterparse is exhausted: process() returns, lines 217-219.
EndFile ==
    /\ pc = "process"
    /\ pc' = "main"
    /\ UNCHANGED <<argv, options, nfiles, outputDir, dirs, disk, citation, last,
                   output_count, skipped_count, processed, cleared, written,
                   summary>>

\* main() line 233, after the last input file.
Summary ==
    /\ pc = "main"
    /\ nfiles >= 1
    /\ summary' = TRUE
    /\ pc' = "done"
    /\ UNCHANGED <<argv, options, nfiles, outputDir, dirs, disk, citation, last,
                   output_count, skipped_count, processed, cleared, written>>

-----------------------------------------------------------------------------
\* Inputs.

Seg(label, text) == [Label |-> label, text |-> text]
Art(titles, abstracts) == [ArticleTitles |-> titles, Abstracts |-> abstracts]
Cit(pmids, articles, others) ==
    [PMIDs |-> pmids, Articles |-> articles, OtherAbstracts |-> others]

RECURSIVE SeqsOfLen(_, _)
SeqsOfLen(S, n) ==
    IF n = 0 THEN {<<>>} ELSE {Append(s, x) : s \in SeqsOfLen(S, n - 1), x \in S}
SeqsUpTo(S, n) == UNION {SeqsOfLen(S, k) : k \in 0..n}

P100 == Some(<<49, 48, 48>>)
P150 == Some(<<49, 53, 48>>)
P200 == Some(<<50, 48, 48>>)
TitleT == Some(<<84>>)
TitleU == Some(<<85, 233>>)
AIM == Some(<<65, 73, 77>>)
TextA == Some(<<65>>)
TextB == Some(<<66>>)
TextAB == Some(<<65, 10, 66>>)

Medline1 == <<109, 101, 100, 108, 105, 110, 101, 49, 50, 110, 49, 46, 120, 109, 108>>
Medline1gz == Medline1 \o <<46, 103, 122>>
Medline2 == <<109, 101, 100, 108, 105, 110, 101, 49, 50, 110, 50, 46, 120, 109, 108>>
Notes == <<110, 111, 116, 101, 115, 46, 120, 109, 108>>

\* Command lines: with and without each bound, both modes, quiet and verbose.
AllArgs ==
    [PMID_greater_than : {None, P100}, PMID_lower_than : {None, P200},
     single_line_abstract : BOOLEAN, verbose : BOOLEAN]

\* Every abstract of up to MaxSegs AbstractText children over three labels
\* (none, "UNLABELLED", "AIM") and three texts (none, " ", "A").
Segments == {Seg(l, t) : l \in {None, Some(UNLABELLED), AIM},
                         t \in {None, Some(<<32>>), TextA}}
Blocks == SeqsUpTo(Segments, MaxSegs)

\* Abstracts used where the citation around them is varied.
FewBlocks ==
    { <<>>,
      <<Seg(None, None)>>,
      <<Seg(AIM, TextAB)>>,
      <<Seg(AIM, TextA), Seg(Some(UNLABELLED), None)>>,
      <<Seg(AIM, TextA), Seg(None, TextB)>> }

\* Well-formed citations around every abstract of Blocks.
AbstractCitations ==
    {Cit(<<P150>>, <<Art(<<TitleT>>, <<b>>)>>, <<>>) : b \in Blocks}

\* Citations varied in every cardinality the loop body checks.
PMIDLists ==
    {<<>>, <<P150, P100>>}
    \cup {<<p>> : p \in {None, P100, P150, P200, Some(<<49, 53, 97>>)}}
TitleLists == {<<>>, <<TitleT, TitleU>>} \cup {<<t>> : t \in {None, TitleT, TitleU}}
AbstractLists ==
    {<<>>, <<<<Seg(None, TextA)>>, <<Seg(None, TextB)>>>>}
    \cup {<<b>> : b \in FewBlocks}
OtherLists ==
    {<<>>, <<<<Seg(None, TextB)>>, <<>>>>, <<<<>>, <<Seg(None, TextB)>>>>}
    \cup {<<b>> : b \in FewBlocks}
Articles == {Art(t, a) : t \in TitleLists, a \in AbstractLists}
ArticleLists ==
    {<<>>, <<Art(<<TitleT>>, <<>>), Art(<<TitleU>>, <<>>)>>}
    \cup {<<a>> : a \in Articles}
ShapeCitations ==
    {Cit(p, a, x) : p \in PMIDLists, a \in ArticleLists, x \in OtherLists}

\* The citations of a run of several citations and files.
RunArticleLists ==
    { <<Art(<<TitleT>>, <<>>)>>,
      <<Art(<<TitleU>>, <<<<Seg(None, TextAB)>>>>)>>,
      <<Art(<<None>>, <<>>)>>,
      <<Art(<<TitleT>>, <<>>), Art(<<TitleU>>, <<>>)>> }
RunCitations ==
    {Cit(<<p>>, a, <<>>) : p \in {P100, P150, P200}, a \in RunArticleLists}
    \cup {Cit(<<>>, <<Art(<<TitleT>>, <<>>)>>, <<>>)}
RunArgs == {a \in AllArgs : ~a.single_line_abstract}
RunFiles == {Medline1, Medline1gz, Medline2, Notes}

-----------------------------------------------------------------------------
\* Specifications.

\* A run over up to MaxFiles files and MaxCitations citations.
Init == InitWith(RunArgs)
Next ==
    \/ ParseArgs
    \/ OpenFile(RunFiles, MaxFiles)
    \/ Yield(RunCitations, MaxCitations)
    \/ ProcessCitation
    \/ EndFile
    \/ Summary
Spec == Init /\ [][Next]_vars

\* A run over one file that holds one citation, the citation drawn from
\* ShapeCitations.
CitationArgs ==
    AllArgs \cup {[PMID_greater_than |-> Some(<<120>>), PMID_lower_than |-> None,
                   single_line_abstract |-> FALSE, verbose |-> FALSE]}
InitCitation == InitWith(CitationArgs)
NextCitation ==
    \/ ParseArgs
    \/ OpenFile({Medline1}, 1)
    \/ Yield(ShapeCitations, 1)
    \/ ProcessCitation
    \/ EndFile
    \/ Summary
SpecCitation == InitCitation /\ [][NextCitation]_vars

\* A run without bounds over one file that holds one well-formed citation, its
\* abstract drawn from Blocks.
AbstractArgs ==
    {a \in AllArgs : ~a.PMID_greater_than.some /\ ~a.PMID_lower_than.some}
InitAbstract == InitWith(AbstractArgs)
NextAbstract ==
    \/ ParseArgs
    \/ OpenFile({Medline2}, 1)
    \/ Yield(AbstractCitations, 1)
    \/ ProcessCitation
    \/ EndFile
    \/ Summary
SpecAbstract == InitAbstract /\ [][NextAbstract]_vars

-----------------------------------------------------------------------------
\* Vocabulary of the properties.

\* The loop body has run for `citation`, and `last` is its result.
Handled == processed >= 1 /\ pc # "citation"

\* The citation's identifier, when its one PMID child holds an integer.
HasIdentifier == Len(citation.PMIDs) = 1 /\ IntOf(citation.PMIDs[1]).ok
Identifier == IntOf(citation.PMIDs[1]).val

\* The identifier is at or below a configured lower bound, or at or above a
\* configured upper bound.
Filtered ==
    \/ options.PMID_greater_than.some
       /\ Identifier <= options.PMID_greater_than.val
    \/ options.PMID_lower_than.some
       /\ Identifier >= options.PMID_lower_than.val

\* The files of the current package directory.
PackageFiles == {f \in DOMAIN disk : f[1] = outputDir}

\* C1: a citation with one identifier child is skipped (no file, skipped
\* counter 1, output counter 0) exactly when its identifier is <= a configured
\* lower bound or >= a configured upper bound; otherwise it is not counted as
\* skipped, and when it is emitted the output counter is 1 and the skipped
\* counter 0. (One file, one citation: the counters start at 0.)
C1_SkipsExactlyOutOfRange ==
    (Handled /\ HasIdentifier) =>
        /\ Filtered <=> last.kind = "skipped"
        /\ Filtered => /\ disk = <<>>
                       /\ skipped_count = 1 /\ output_count = 0
                       /\ pc # "fatal"
        /\ last.kind = "output" => output_count = 1 /\ skipped_count = 0

\* C9: a citation whose identifier is outside the configured range is skipped
\* and counted, and never aborts the run, whatever its Article, ArticleTitle,
\* Abstract and AbstractText children are; a citation whose number of PMID
\* children is not 1 aborts the run whatever the bounds are.
C9_FilterBeforeArticleChecks ==
    Handled =>
        /\ (HasIdentifier /\ Filtered) =>
               pc # "fatal" /\ last.kind = "skipped" /\ skipped_count = 1
        /\ Len(citation.PMIDs) # 1 => pc = "fatal"

\* The citation passes the filter and every cardinality check, and its
\* ArticleTitle has no text.
TitleWithoutText ==
    /\ Len(citation.PMIDs) = 1
    /\ citation.PMIDs[1].some
    /\ MatchesDigits(citation.PMIDs[1].val)
    /\ ~Filtered
    /\ Len(citation.Articles) = 1
    /\ Len(citation.Articles[1].ArticleTitles) = 1
    /\ ~citation.Articles[1].ArticleTitles[1].some
    /\ Len(citation.Articles[1].Abstracts) <= 1
    /\ \/ citation.Articles[1].Abstracts = <<>> /\ citation.OtherAbstracts = <<>>
       \/ citation.Articles[1].Abstracts # <<>>
          /\ citation.Articles[1].Abstracts[1] # <<>>
       \/ citation.Articles[1].Abstracts = <<>> /\ citation.OtherAbstracts # <<>>
          /\ citation.OtherAbstracts[1] # <<>>

\* C10: a citation that passes the filter and every cardinality check and
\* whose ArticleTitle has no text aborts the run, is not counted as output,
\* and leaves no output file behind, not even an empty one.
C10_MissingTitleLeavesNoFile ==
    (Handled /\ TitleWithoutText) =>
        /\ pc = "fatal"
        /\ output_count = 0
        /\ <<outputDir, citation.PMIDs[1].val>> \notin DOMAIN disk

\* The loop body is about to run for a citation that passes the filter and has
\* two Article children.
ReachesTwoArticles ==
    /\ pc = "citation"
    /\ Len(citation.PMIDs) = 1
    /\ ReadsPMID(options) => HasIdentifier /\ ~Filtered
    /\ Len(citation.Articles) = 2

\* C2: a citation that is not filtered out and has 2 Article children ends the
\* run: that step writes no file and counts nothing, every file written before
\* stays as it was, nothing changes afterwards (no later citation, no later
\* file), and the summary is never printed.
C2_TwoArticlesAbort ==
    [][ /\ ReachesTwoArticles =>
              /\ pc' = "fatal"
              /\ disk' = disk
              /\ output_count' = output_count /\ skipped_count' = skipped_count
        /\ pc = "fatal" => UNCHANGED vars
        /\ pc' = "fatal" => ~summary' ]_vars

\* C2's case: the run aborted on a citation with two Article children after an
\* earlier citation's file was written.
C2_Witness ==
    /\ pc = "fatal"
    /\ last.error = "AssertionError: articles"
    /\ Len(citation.Articles) = 2
    /\ output_count = 1
    /\ Cardinality(DOMAIN disk) = 1

\* C8: in a run that has not aborted, the citations cleared are the citations
\* processed, and those are the ones counted as output plus the ones counted as
\* skipped; the two counters never decrease, exactly one of them grows by 1 per
\* citation processed, and neither changes (or is reset) by any other step.
C8_CountersAndReleases ==
    [][ /\ pc' # "fatal" =>
              /\ cleared' = processed'
              /\ processed' = output_count' + skipped_count'
        /\ output_count' \in {output_count, output_count + 1}
        /\ skipped_count' \in {skipped_count, skipped_count + 1}
        /\ (processed' = processed + 1 /\ pc' # "fatal") =>
               output_count' + skipped_count' = output_count + skipped_count + 1
        /\ processed' = processed =>
               output_count' = output_count /\ skipped_count' = skipped_count
      ]_vars

\* C8's case: a second input file is being processed and both counters carry
\* what the first file added.
C8_Witness ==
    /\ pc = "process"
    /\ nfiles = 2
    /\ output_count = 1
    /\ skipped_count = 1
    /\ cleared = 2

\* " " in single-line mode, "\n" otherwise.
Sep == IF options.single_line_abstract THEN <<32>> ELSE <<10>>

\* label + ":" + sep + body for every segment of b, joined by sep.
RECURSIVE LabelledLines(_, _)
LabelledLines(b, sep) ==
    LET first == b[1].Label.val \o <<58>> \o sep \o b[1].text.val
    IN IF Len(b) = 1 THEN first ELSE first \o sep \o LabelledLines(Tail(b), sep)

\* An abstract was assembled for an emitted citation from two or more segments.
MultiSegment ==
    Handled /\ last.kind = "output" /\ last.abstract.some
    /\ Len(last.abstract.val) >= 2

\* Every segment has a label other than "UNLABELLED" and a non-empty body.
AllLabelledNonEmpty(b) ==
    \A i \in 1..Len(b) :
        /\ b[i].Label.some /\ b[i].Label.val # UNLABELLED
        /\ b[i].text.some /\ b[i].text.val # <<>>

\* Every segment has a label other than "UNLABELLED" and a body with at least
\* one character that is not whitespace.
AllLabelledNonBlank(b) ==
    \A i \in 1..Len(b) :
        /\ b[i].Label.some /\ b[i].Label.val # UNLABELLED
        /\ b[i].text.some
        /\ \E j \in 1..Len(b[i].text.val) : b[i].text.val[j] \notin Whitespace

EmptyUnlabelled(b, i) ==
    /\ b[i].Label.some /\ b[i].Label.val = UNLABELLED
    /\ ~b[i].text.some \/ b[i].text.val = <<>>

\* b with segment i removed.
Without(b, i) == SubSeq(b, 1, i - 1) \o SubSeq(b, i + 1, Len(b))

\* C4 as claimed: in an abstract of two or more segments, a segment with label
\* "UNLABELLED" and an empty or missing body adds nothing: the assembled text
\* is the text assembled from the abstract with that segment removed, and with
\* verbose off nothing is printed for it.
C4_Original ==
    MultiSegment =>
        \A i \in 1..Len(last.abstract.val) :
            EmptyUnlabelled(last.abstract.val, i) =>
                /\ last.textAbstract =
                       TextAbstract(Without(last.abstract.val, i), options)
                /\ ~options.verbose =>
                       last.notes = AbstractNotes(Without(last.abstract.val, i),
                                                  options)

\* C4 as amended: the assembled text is the separator-joined contributions of
\* the remaining segments, which is the text assembled from the abstract with
\* that segment removed when at least two segments remain (a single remaining
\* segment would be taken verbatim, without its label); with verbose off what
\* is printed is what the remaining segments print.
C4_EmptyUnlabelledAddsNothing ==
    MultiSegment =>
        \A i \in 1..Len(last.abstract.val) :
            EmptyUnlabelled(last.abstract.val, i) =>
                LET rest == Without(last.abstract.val, i) IN
                /\ last.textAbstract =
                       Some(Join(Sep, SectionTexts(rest, options)))
                /\ Len(rest) >= 2 =>
                       last.textAbstract = TextAbstract(rest, options)
                /\ ~options.verbose =>
                       last.notes = SectionNotes(rest, options)

\* C4's case: an empty "UNLABELLED" segment between two segments that
\* contribute, with verbose off.
C4_Witness ==
    /\ MultiSegment
    /\ ~options.verbose
    /\ Len(last.abstract.val) = 3
    /\ EmptyUnlabelled(last.abstract.val, 2)
    /\ ~EmptyUnlabelled(last.abstract.val, 1)
    /\ ~EmptyUnlabelled(last.abstract.val, 3)
    /\ last.textAbstract.val # <<>>

\* The citation passes the identifier check, the filter and the cardinality
\* checks of Article, ArticleTitle and Abstract.
ReachesAbstract ==
    /\ Len(citation.PMIDs) = 1
    /\ ReadsPMID(options) => HasIdentifier /\ ~Filtered
    /\ Len(citation.Articles) = 1
    /\ Len(citation.Articles[1].ArticleTitles) = 1
    /\ Len(citation.Articles[1].Abstracts) <= 1

\* C5: for an emitted citation the abstract used is the Article's Abstract
\* when there is one, else the first OtherAbstract of the citation (further
\* ones are ignored), else none; with neither, the abstract text is empty and
\* the file holds the title line only; and a citation whose chosen abstract
\* has no AbstractText child aborts the run without a file.
C5_AbstractChoice ==
    Handled =>
        LET own == citation.Articles[1].Abstracts
            other == citation.OtherAbstracts
        IN /\ last.kind = "output" =>
                 /\ own # <<>> =>
                        /\ last.abstract = Some(own[1])
                        /\ last.textAbstract = TextAbstract(own[1], options)
                 /\ (own = <<>> /\ other # <<>>) =>
                        /\ last.abstract = Some(other[1])
                        /\ last.textAbstract = TextAbstract(other[1], options)
                 /\ (own = <<>> /\ other = <<>>) =>
                        /\ last.abstract = None
                        /\ last.textAbstract = Some(<<>>)
           /\ (/\ ReachesAbstract
               /\ citation.PMIDs[1].some /\ MatchesDigits(citation.PMIDs[1].val)
               /\ citation.Articles[1].ArticleTitles[1].some
               /\ own = <<>> /\ other = <<>>) =>
                  /\ last.kind = "output"
                  /\ disk[<<outputDir, citation.PMIDs[1].val>>] =
                         Encode(citation.Articles[1].ArticleTitles[1].val) \o <<10>>
           /\ (/\ ReachesAbstract
               /\ \/ own # <<>> /\ own[1] = <<>>
                  \/ own = <<>> /\ other # <<>> /\ other[1] = <<>>) =>
                  pc = "fatal" /\ disk = <<>>

\* C5's case: no Abstract and two different OtherAbstract blocks, the first of
\* which became the abstract of an emitted citation.
C5_Witness ==
    /\ Handled
    /\ last.kind = "output"
    /\ citation.Articles[1].Abstracts = <<>>
    /\ Len(citation.OtherAbstracts) = 2
    /\ citation.OtherAbstracts[1] # citation.OtherAbstracts[2]
    /\ last.textAbstract = TextB

\* UTF-8 bytes back to code points.
RECURSIVE Decode(_)
Decode(d) ==
    IF d = <<>> THEN <<>>
    ELSE IF d[1] < 128 THEN <<d[1]>> \o Decode(Tail(d))
    ELSE IF d[1] < 224
    THEN <<(d[1] - 192) * 64 + (d[2] - 128)>> \o Decode(SubSeq(d, 3, Len(d)))
    ELSE <<(d[1] - 224) * 4096 + (d[2] - 128) * 64 + (d[3] - 128)>>
         \o Decode(SubSeq(d, 4, Len(d)))

\* The position of the first newline byte of d (Len(d) + 1 without one).
RECURSIVE FirstNewline(_, _)
FirstNewline(d, i) ==
    IF i > Len(d) \/ d[i] = 10 THEN i ELSE FirstNewline(d, i + 1)
FirstLine(d) == SubSeq(d, 1, FirstNewline(d, 1) - 1)
AfterFirstLine(d) == SubSeq(d, FirstNewline(d, 1) + 1, Len(d))

WrittenAs(id) == {k \in 1..Len(written) : written[k].PMID = id}
LastWrittenAs(id) ==
    written[CHOOSE k \in WrittenAs(id) : \A j \in WrittenAs(id) : j <= k]

\* The bytes of a file with this title and abstract text.
RecordBytes(w) ==
    Encode(w.title) \o <<10>>
    \o (IF w.abstract.some /\ w.abstract.val # <<>>
        THEN Encode(w.abstract.val) \o <<10>> ELSE <<>>)

Truncated ==
    IF last.kind = "error" /\ last.opened
    THEN {<<outputDir, last.textPMID.val>>} ELSE {}

=============================================================================
